---- MODULE Spec2Model ----
(***************************************************************************)
(* A model of unification/core.py: reify and unify over terms built from   *)
(* ints, logic variables, tuples, lists, sets, frozensets and dicts, and   *)
(* of a caller that threads one substitution through successive calls.     *)
(***************************************************************************)
EXTENDS Integers, Sequences, FiniteSets, TLC

\* Bounds of the model.
NumVars == 2      \* logic variables ~1 .. ~NumVars
MaxInt == 2       \* int scalars (and dict keys) 1 .. MaxInt
MaxLen == 2       \* elements of a tuple, list, set or dict handed to a call
MaxCalls == 2     \* unify calls threaded through one another in a session

VarIds == 1..NumVars

(***************************************************************************)
(* Python values.  Every value is a record of one shape: k is the Python   *)
(* type, v the int or the variable's token, ks/e the keys and values of a  *)
(* dict in insertion order, e the elements of a tuple or list, m the       *)
(* members of a set or frozenset.                                          *)
(***************************************************************************)
Term(kind, val, keys, elems, members) ==
    [k |-> kind, v |-> val, ks |-> keys, e |-> elems, m |-> members]

Scalar(n) == Term("int", n, <<>>, <<>>, {})
Var(i) == Term("var", i, <<>>, <<>>, {})
Tuple(es) == Term("tuple", 0, <<>>, es, {})
List(es) == Term("list", 0, <<>>, es, {})
PySet(ms) == Term("set", 0, <<>>, <<>>, ms)
FrozenSet(ms) == Term("frozenset", 0, <<>>, <<>>, ms)
Dict(keys, vals) == Term("dict", 0, keys, vals, {})

\* s[x] for a variable x that is no key of the dict s.
Unbound == Term("unbound", 0, <<>>, <<>>, {})
\* The outcome of a call whose recursion (or loop) never ends: CPython raises
\* RecursionError for the recursion and hangs in the loop.
RecursionError == Term("RecursionError", 0, <<>>, <<>>, {})

isvar(t) == t.k = "var"
isseq(t) == t.k \in {"tuple", "list"}
issetlike(t) == t.k \in {"set", "frozenset"}
isdict(t) == t.k = "dict"
Range(f) == {f[i] : i \in DOMAIN f}

\* A substitution: a dict whose keys are variables.
EmptySubst == [i \in VarIds |-> Unbound]
IsKey(x, s) == s[x.v] # Unbound

\* Python's == on values.  Sequences are equal when of the same type, length and
\* elements; a set equals a frozenset of the same members; dicts are equal when
\* they map the same keys to equal values, whatever the insertion order.
RECURSIVE PyEq(_, _)
PyEq(a, b) ==
    IF isseq(a) /\ isseq(b)
    THEN /\ a.k = b.k
         /\ Len(a.e) = Len(b.e)
         /\ \A i \in 1..Len(a.e) : PyEq(a.e[i], b.e[i])
    ELSE IF issetlike(a) /\ issetlike(b)
    THEN a.m = b.m
    ELSE IF isdict(a) /\ isdict(b)
    THEN /\ Range(a.ks) = Range(b.ks)
         /\ \A i \in 1..Len(a.ks) : \A j \in 1..Len(b.ks) :
                a.ks[i] = b.ks[j] => PyEq(a.e[i], b.e[j])
    ELSE a = b

(***************************************************************************)
(* Reification                                                             *)
(***************************************************************************)
\* path: the bound variables whose reify call is on the call stack.  reify is a
\* pure function, so a call that meets its own argument again never returns.
RECURSIVE reifyOn(_, _, _)
RECURSIVE _reify(_, _, _)

\* map(partial(reify, s=s), t) consumed by tuple(), list() or dict().
RECURSIVE reifyIter(_, _, _, _)
reifyIter(es, i, s, path) ==
    IF i > Len(es) THEN <<>>
    ELSE LET head == reifyOn(es[i], s, path)
             tail == reifyIter(es, i + 1, s, path)
         IN  IF head = RecursionError \/ tail = <<RecursionError>>
             THEN <<RecursionError>>
             ELSE <<head>> \o tail

\* tuple, list and dict have a handler; every other type (int, set, frozenset)
\* falls to the (object, dict) catch-all, which returns the object itself.
_reify(t, s, path) ==
    IF isseq(t) \/ isdict(t)
    THEN LET es == reifyIter(t.e, 1, s, path)
         IN  IF es = <<RecursionError>> THEN RecursionError
             ELSE [t EXCEPT !.e = es]
    ELSE t

\* A mutant of reify: a bound variable is replaced by its value, not by the
\* reification of its value.
reifyOn_onestep(e, s, path) ==
    IF isvar(e)
    THEN IF IsKey(e, s) THEN s[e.v] ELSE e
    ELSE _reify(e, s, path)

\* A mutant of reify: the recursion is on the variable, not on its value.
reifyOn_nolookup(e, s, path) ==
    IF isvar(e)
    THEN IF IsKey(e, s) THEN RecursionError ELSE e
    ELSE _reify(e, s, path)

reifyOn(e, s, path) ==
    IF isvar(e)
    THEN IF IsKey(e, s)
         THEN IF e.v \in path THEN RecursionError
              ELSE reifyOn(s[e.v], s, path \cup {e.v})
         ELSE e
    ELSE _reify(e, s, path)

reify(e, s) == reifyOn(e, s, {})

(***************************************************************************)
(* Unification                                                             *)
(***************************************************************************)
\* What unify returns: a dict, or False.  A call whose recursion never ends
\* returns nothing (RecursionError).
Subst(s) == [tag |-> "dict", s |-> s]
FAILURE == [tag |-> "False", s |-> EmptySubst]
Diverges == [tag |-> "RecursionError", s |-> EmptySubst]

\* utils.transitive_get: while the key is in the dict, replace it by its value.
\* seen: the keys passed so far; meeting one again, the loop never ends.
RECURSIVE walkOn(_, _, _)
walkOn(key, s, seen) ==
    IF isvar(key) /\ IsKey(key, s)
    THEN IF key.v \in seen THEN RecursionError
         ELSE walkOn(s[key.v], s, seen \cup {key.v})
    ELSE key

walk(key, s) == walkOn(key, s, {})

\* toolz.assoc: a new dict equal to s but for the key x; s itself is not changed.
assoc(s, x, val) == [s EXCEPT ![x.v] = val]

\* The order sorted() puts the members of a set in: ints by value, variables by
\* token, ints before variables.
lessThan(a, b) ==
    \/ a.k = "int" /\ b.k = "var"
    \/ a.k = b.k /\ a.v < b.v

RECURSIVE sorted(_)
sorted(ms) ==
    IF ms = {} THEN <<>>
    ELSE LET lo == CHOOSE a \in ms : \A b \in ms \ {a} : lessThan(a, b)
         IN  <<lo>> \o sorted(ms \ {lo})

\* stack: the (u, v, s) of the unify calls on the call stack.  unify is a pure
\* function, so a call that meets its own arguments again never returns.
RECURSIVE unifyOn(_, _, _, _)
RECURSIVE _unify(_, _, _, _)

\* for uu, vv in zip(u, v): s = unify(uu, vv, s); if s is False: return False
RECURSIVE zipLoop(_, _, _, _, _)
zipLoop(us, vs, i, s, stack) ==
    IF i > Len(us) THEN Subst(s)
    ELSE LET r == unifyOn(us[i], vs[i], s, stack)
         IN  IF r.tag # "dict" THEN r
             ELSE zipLoop(us, vs, i + 1, r.s, stack)

\* A mutant of zipLoop: every pair is unified under the substitution the call
\* was given, not under the one the pair before it returned.
RECURSIVE zipLoop_unthreaded(_, _, _, _, _)
zipLoop_unthreaded(us, vs, i, s, stack) ==
    IF i > Len(us) THEN Subst(s)
    ELSE LET r == unifyOn(us[i], vs[i], s, stack)
         IN  IF r.tag # "dict" THEN r
             ELSE IF i = Len(us) THEN r
             ELSE zipLoop_unthreaded(us, vs, i + 1, s, stack)

\* A mutant of _unify_seq: the pairs are not threaded.
_unify_seq_unthreaded(u, v, s, stack) ==
    IF Len(u.e) # Len(v.e) THEN FAILURE
    ELSE zipLoop_unthreaded(u.e, v.e, 1, s, stack)

\* (seq, seq, dict), seq = tuple, list, Iterator: any two of them.
_unify_seq(u, v, s, stack) ==
    IF Len(u.e) # Len(v.e) THEN FAILURE
    ELSE zipLoop(u.e, v.e, 1, s, stack)

\* A mutant of _unify_set: the intersection is not removed.
_unify_set_keepcommon(u, v, s, stack) ==
    _unify(List(sorted(u.m)), List(sorted(v.m)), s, stack)

\* ((set, frozenset), (set, frozenset), dict)
_unify_set(u, v, s, stack) ==
    LET i == u.m \cap v.m
    IN  _unify(List(sorted(u.m \ i)), List(sorted(v.m \ i)), s, stack)

\* v[key] of a dict v that has the key.
Item(d, key) == d.e[CHOOSE j \in 1..Len(d.ks) : d.ks[j] = key]

\* for key, uval in iteritems(u): ...
RECURSIVE itemsLoop(_, _, _, _, _)
itemsLoop(u, v, i, s, stack) ==
    IF i > Len(u.ks) THEN Subst(s)
    ELSE IF u.ks[i] \notin Range(v.ks) THEN FAILURE
    ELSE LET r == unifyOn(u.e[i], Item(v, u.ks[i]), s, stack)
         IN  IF r.tag # "dict" THEN r
             ELSE itemsLoop(u, v, i + 1, r.s, stack)

\* (dict, dict, dict)
_unify_dict(u, v, s, stack) ==
    IF Len(u.ks) # Len(v.ks) THEN FAILURE
    ELSE itemsLoop(u, v, 1, s, stack)

\* The dispatch on the types of u and v; (object, object, dict) is the catch-all.
_unify(u, v, s, stack) ==
    IF isseq(u) /\ isseq(v) THEN _unify_seq(u, v, s, stack)
    ELSE IF issetlike(u) /\ issetlike(v) THEN _unify_set(u, v, s, stack)
    ELSE IF isdict(u) /\ isdict(v) THEN _unify_dict(u, v, s, stack)
    ELSE FAILURE

\* A mutant of unify: u and v are not walked.
unifyOn_nowalk(u, v, s, stack) ==
    IF <<u, v, s>> \in stack THEN Diverges
    ELSE IF PyEq(u, v) THEN Subst(s)
    ELSE IF isvar(u) THEN Subst(assoc(s, u, v))
    ELSE IF isvar(v) THEN Subst(assoc(s, v, u))
    ELSE _unify(u, v, s, stack \cup {<<u, v, s>>})

unifyOn(u0, v0, s, stack) ==
    IF <<u0, v0, s>> \in stack THEN Diverges
    ELSE LET u == walk(u0, s)
             v == walk(v0, s)
         IN  IF u = RecursionError \/ v = RecursionError THEN Diverges
             ELSE IF PyEq(u, v) THEN Subst(s)
             ELSE IF isvar(u) THEN Subst(assoc(s, u, v))
             ELSE IF isvar(v) THEN Subst(assoc(s, v, u))
             ELSE _unify(u, v, s, stack \cup {<<u0, v0, s>>})

unify(u, v, s) == unifyOn(u, v, s, {})

(***************************************************************************)
(* Groundness                                                              *)
(***************************************************************************)
Children(t) ==
    IF isseq(t) \/ isdict(t) THEN Range(t.e)
    ELSE IF issetlike(t) THEN t.m
    ELSE {}

\* path: the variables resolved on the way to t.  A bound variable met again on
\* its own resolution path counts as unresolved.
RECURSIVE unboundOn(_, _, _)
unboundOn(t, s, path) ==
    IF isvar(t)
    THEN IF IsKey(t, s) /\ t.v \notin path
         THEN unboundOn(s[t.v], s, path \cup {t.v})
         ELSE {t}
    ELSE UNION {unboundOn(c, s, path) : c \in Children(t)}

unbound_variables(t, s) == unboundOn(t, s, {})

\* A mutant of is_ground: a variable met again on its own path is taken as
\* resolved.
RECURSIVE groundOn_cycleblind(_, _, _)
groundOn_cycleblind(t, s, path) ==
    IF isvar(t)
    THEN IF ~IsKey(t, s) THEN FALSE
         ELSE IF t.v \in path THEN TRUE
         ELSE groundOn_cycleblind(s[t.v], s, path \cup {t.v})
    ELSE \A c \in Children(t) : groundOn_cycleblind(c, s, path)

RECURSIVE groundOn(_, _, _)
groundOn(t, s, path) ==
    IF isvar(t)
    THEN IF ~IsKey(t, s) \/ t.v \in path THEN FALSE
         ELSE groundOn(s[t.v], s, path \cup {t.v})
    ELSE \A c \in Children(t) : groundOn(c, s, path)

is_ground(t, s) == groundOn(t, s, {})

(***************************************************************************)
(* The terms and substitutions handed to the calls                         *)
(***************************************************************************)
Atoms == {Scalar(n) : n \in 1..MaxInt} \cup {Var(i) : i \in VarIds}
SeqsOf(S) == UNION {[1..n -> S] : n \in 0..MaxLen}
Injective(q) == \A i, j \in 1..Len(q) : q[i] = q[j] => i = j
KeySeqs == {q \in SeqsOf(1..MaxInt) : Injective(q)}
Members == {ms \in SUBSET Atoms : Cardinality(ms) <= MaxLen}

Tuples == {Tuple(es) : es \in SeqsOf(Atoms)}
Lists == {List(es) : es \in SeqsOf(Atoms)}
Sets == {PySet(ms) : ms \in Members}
FrozenSets == {FrozenSet(ms) : ms \in Members}
Dicts == UNION {{Dict(q, vals) : vals \in [1..Len(q) -> Atoms]} : q \in KeySeqs}

Terms == Atoms \cup Tuples \cup Lists \cup Sets \cup FrozenSets \cup Dicts

\* The values a caller-built substitution binds a variable to.
Small == {t \in Terms : Len(t.e) <= 1 /\ Cardinality(t.m) <= 1}
Substs == [VarIds -> Small \cup {Unbound}]

(***************************************************************************)
(* The caller: one substitution threaded through unify calls, reified and  *)
(* examined in between.                                                    *)
(***************************************************************************)
VARIABLES
    s,      \* the substitution the caller holds
    calls,  \* unify calls made so far
    op,     \* the last call: "none", "unify", "reify" or "isground"
    u, v,   \* its arguments (v is None for reify and isground)
    s0,     \* the substitution it was given
    ures,   \* what unify returned
    rres,   \* what reify returned
    gres    \* what is_ground and unbound_variables returned

vars == <<s, calls, op, u, v, s0, ures, rres, gres>>

None == Term("NoneType", 0, <<>>, <<>>, {})
NoGround == [ground |-> FALSE, unbound |-> {}]

Start(s_init) ==
    /\ s = s_init
    /\ calls = 0
    /\ op = "none"
    /\ u = None
    /\ v = None
    /\ s0 = s_init
    /\ ures = FAILURE
    /\ rres = None
    /\ gres = NoGround

Init == Start(EmptySubst)
InitAny == \E s_init \in Substs : Start(s_init)

\* The pairs of terms unify is called on: two terms of one family (sequences,
\* set-likes, dicts), a variable or an int against any term, and across the
\* families every two terms of at most one element.
Family(t) ==
    IF isseq(t) THEN "seq" ELSE IF issetlike(t) THEN "set"
    ELSE IF isdict(t) THEN "dict" ELSE "atom"
Pairs ==
    {p \in Terms \X Terms :
        \/ Family(p[1]) = Family(p[2])
        \/ p[1] \in Atoms \/ p[2] \in Atoms
        \/ p[1] \in Small /\ p[2] \in Small}

\* s = unify(a, b, s), the caller keeping its substitution when the call fails.
Unify(a, b) ==
    /\ op = "none"
    /\ calls < MaxCalls
    /\ LET r == unify(a, b, s)
       IN  /\ ures' = r
           /\ s' = IF r.tag = "dict" THEN r.s ELSE s
    /\ calls' = calls + 1
    /\ op' = "unify"
    /\ u' = a
    /\ v' = b
    /\ s0' = s
    /\ rres' = None
    /\ gres' = NoGround

Reify(t) ==
    /\ op = "none"
    /\ rres' = reify(t, s)
    /\ op' = "reify"
    /\ u' = t
    /\ v' = None
    /\ s0' = s
    /\ ures' = FAILURE
    /\ gres' = NoGround
    /\ UNCHANGED <<s, calls>>

IsGround(t) ==
    /\ op = "none"
    /\ gres' = [ground |-> is_ground(t, s), unbound |-> unbound_variables(t, s)]
    /\ op' = "isground"
    /\ u' = t
    /\ v' = None
    /\ s0' = s
    /\ ures' = FAILURE
    /\ rres' = None
    /\ UNCHANGED <<s, calls>>

\* The caller is done with the result of the last call and goes on.
Continue ==
    /\ op # "none"
    /\ op' = "none"
    /\ u' = None
    /\ v' = None
    /\ s0' = s
    /\ ures' = FAILURE
    /\ rres' = None
    /\ gres' = NoGround
    /\ UNCHANGED <<s, calls>>

Next ==
    \/ op = "none" /\ calls < MaxCalls /\ \E p \in Pairs : Unify(p[1], p[2])
    \/ op = "none" /\ \E t \in Terms : Reify(t)
    \/ Continue

NextPure ==
    \/ op = "none" /\ \E t \in Terms : Reify(t)
    \/ op = "none" /\ \E t \in Terms : IsGround(t)
    \/ Continue

Spec == Init /\ [][Next]_vars
SpecAny == InitAny /\ [][NextPure]_vars

(***************************************************************************)
(* Definitions the properties are stated with                              *)
(***************************************************************************)
\* The variables that occur in a term.
RECURSIVE VarsIn(_)
VarsIn(t) ==
    IF isvar(t) THEN {t.v} ELSE UNION {VarsIn(c) : c \in Children(t)}

IsGroundTerm(t) == VarsIn(t) = {}

\* The variables in the value x is bound to, and those reached from a set of
\* variables through the bindings of sub.
Deps(x, sub) == IF sub[x] = Unbound THEN {} ELSE VarsIn(sub[x])
RECURSIVE ReachFrom(_, _)
ReachFrom(V, sub) ==
    LET W == V \cup UNION {Deps(x, sub) : x \in V}
    IN  IF W = V THEN V ELSE ReachFrom(W, sub)
OnCycle(x, sub) == x \in ReachFrom(Deps(x, sub), sub)
NoOccurs(sub) == \A x \in VarIds : ~OnCycle(x, sub)
ReachesCycle(t, sub) == \E x \in ReachFrom(VarsIn(t), sub) : OnCycle(x, sub)

\* The left-to-right fold of unify over the pairs us[i], vs[i], i = from..Len(us),
\* each pair unified under the substitution the pair before it returned, ending
\* at the first pair that does not unify.
RECURSIVE FoldPairs(_, _, _, _)
FoldPairs(us, vs, from, sub) ==
    IF from > Len(us) THEN Subst(sub)
    ELSE LET r == unify(us[from], vs[from], sub)
         IN  IF r.tag # "dict" THEN r ELSE FoldPairs(us, vs, from + 1, r.s)

SeqUnification(us, vs, sub) ==
    IF Len(us) # Len(vs) THEN FAILURE ELSE FoldPairs(us, vs, 1, sub)

\* A container of the kind of t holding the reify of its elements, values or
\* members.
ReifiedInside(t, sub) ==
    IF issetlike(t) THEN [t EXCEPT !.m = {reify(c, sub) : c \in t.m}]
    ELSE [t EXCEPT !.e = [i \in 1..Len(t.e) |-> reify(t.e[i], sub)]]

x1 == Var(1)
x2 == Var(2)

(***************************************************************************)
(* C1: whenever unify(u, v, s) returns a substitution, applying it makes   *)
(* the two terms equal: reify(u, s') == reify(v, s') (stated here for the  *)
(* calls on which both reify calls return).                                *)
(***************************************************************************)
C1_Soundness ==
    (op = "unify" /\ ures.tag = "dict") =>
        LET ru == reify(u, ures.s)
            rv == reify(v, ures.s)
        IN  ru = RecursionError \/ rv = RecursionError \/ PyEq(ru, rv)

(***************************************************************************)
(* C2: for ground a and b, unify(a, b, {}) returns {} if a == b and        *)
(* FAILURE otherwise.                                                      *)
(***************************************************************************)
C2_GroundUnify ==
    (op = "unify" /\ s0 = EmptySubst /\ IsGroundTerm(u) /\ IsGroundTerm(v)) =>
        ures = IF PyEq(u, v) THEN Subst(EmptySubst) ELSE FAILURE

(***************************************************************************)
(* C3: unify of a list against a tuple returns FAILURE under every         *)
(* substitution, even when their lengths and elements are equal.           *)
(***************************************************************************)
C3_SeqKindMismatch ==
    (op = "unify" /\ isseq(u) /\ isseq(v) /\ u.k # v.k) => ures = FAILURE

(***************************************************************************)
(* C4: unify of two sequences of the same kind under s returns FAILURE if  *)
(* their lengths differ, and otherwise the left-to-right fold of unify     *)
(* over the element pairs starting from s, ending at the first failure.    *)
(***************************************************************************)
C4_SeqFold ==
    (op = "unify" /\ isseq(u) /\ isseq(v) /\ u.k = v.k) =>
        ures = SeqUnification(u.e, v.e, s0)

\* unify((x, x), (1, 2), {}) is FAILURE: the second pair sees the binding the
\* first one made.
C4_Witness ==
    /\ op = "unify"
    /\ u = Tuple(<<x1, x1>>)
    /\ v = Tuple(<<Scalar(1), Scalar(2)>>)
    /\ s0 = EmptySubst
    /\ ures = FAILURE

C6_ReifyInside ==
    (op = "reify" /\ (isseq(u) \/ isdict(u) \/ issetlike(u))
                  /\ rres # RecursionError) =>
        rres = ReifiedInside(u, s)

(***************************************************************************)
(* C7: reify is idempotent: whenever reify(t, s) returns r, reify(r, s)    *)
(* returns r.                                                              *)
(***************************************************************************)
C7_Idempotent ==
    (op = "reify" /\ rres # RecursionError) => reify(rres, s) = rres

\* reify((x,), s) with x bound to a variable that is bound in turn.
C7_Witness ==
    /\ op = "reify"
    /\ isseq(u)
    /\ \E x \in VarIds : x \in VarsIn(u) /\ isvar(s[x]) /\ IsKey(s[x], s)
    /\ rres \notin {u, RecursionError}

(***************************************************************************)
(* C8: for every substitution s obtained by successful unify calls         *)
(* starting from the empty substitution, reify(t, s) returns a term.       *)
(***************************************************************************)
C8_Total ==
    op = "reify" => rres # RecursionError

\* C8 as amended: reify(t, s) returns a term when no variable is bound in s to
\* a term that contains it, directly or through the bindings of s.
C8_TotalNoOccurs ==
    (op = "reify" /\ NoOccurs(s)) => rres # RecursionError

C8_Witness ==
    /\ op = "reify"
    /\ NoOccurs(s)
    /\ \E x \in VarIds : x \in VarsIn(u) /\ ~isvar(s[x]) /\ VarsIn(s[x]) # {}
    /\ rres \notin {u, RecursionError}

(***************************************************************************)
(* C9: is_ground(t, s) is false for a term t that reaches a variable of a  *)
(* cycle of bindings, and is true exactly when unbound_variables(t, s) is  *)
(* empty.                                                                  *)
(***************************************************************************)
C9_GroundCycleSafe ==
    op = "isground" =>
        /\ gres.ground <=> (gres.unbound = {})
        /\ ReachesCycle(u, s) => ~gres.ground

\* is_ground((1, x), {x: y, y: x}) is false.
C9_Witness ==
    /\ op = "isground"
    /\ u = Tuple(<<Scalar(1), x1>>)
    /\ s[1] = x2
    /\ s[2] = x1
    /\ ~gres.ground

(***************************************************************************)
(* C10: when unify(u, v, s) succeeds, the substitution it returns holds    *)
(* every binding of s with its value unchanged, so that a key it adds was  *)
(* unbound in s; this holds for every call of a threaded sequence.         *)
(***************************************************************************)
C10_OnlyExtends ==
    (op = "unify" /\ ures.tag = "dict") =>
        \A x \in VarIds : s0[x] # Unbound => ures.s[x] = s0[x]

\* A call that extends a substitution that already holds a binding.
C10_Witness ==
    /\ op = "unify"
    /\ ures.tag = "dict"
    /\ s0 # EmptySubst
    /\ ures.s # s0

====
